---- MODULE Spec2Model ----
(***************************************************************************)
(* A model of abdullin/lex-go: the tuple codec (package tuple), the prefix *)
(* ranges derived from a tuple, and the subspace wrapper (package          *)
(* subspace).                                                              *)
(*                                                                         *)
(* A byte is a number in 0..255.  A []byte is a sequence of bytes.  A Go   *)
(* int64/uint64 is kept at its full width as a sequence of 8 bytes, most   *)
(* significant first (the layout binary.BigEndian writes), and the         *)
(* arithmetic on it is two's complement arithmetic modulo 2^64.            *)
(***************************************************************************)
EXTENDS Integers, Sequences, FiniteSets, TLC

VARIABLES pc, a, b, pa, pb, rng, spare, ua, uab,
          elem, enc, dec, uenc,
          key, res, repacked,
          s1, s2, t, k1, k2, sres,
          heap, subs, held, last

vars == <<pc, a, b, pa, pb, rng, spare, ua, uab, elem, enc, dec, uenc,
          key, res, repacked, s1, s2, t, k1, k2, sres,
          heap, subs, held, last>>

\* ------------------------------------------------------------------------
\* Bounds of the model
\* ------------------------------------------------------------------------

\* longest tuple drawn from the small element set
MaxTupleLen == 2
\* longest []byte / string element of a one-element tuple
MaxStrLen == 2
\* longest raw byte sequence handed to Unpack
MaxKeyLen == 4
\* bytes of the backing array beyond len() that a slice may still reach
MaxSpare == 1
\* longest raw prefix handed to FromBytes
MaxPrefixLen == 1
\* longest tuple handed to a Subspace
MaxSubTupleLen == 1
\* byte arrays alive in the heap of the subspace model
MaxArrays == 4
\* Subspace values constructed in the subspace model
MaxSubs == 2

\* ------------------------------------------------------------------------
\* Bytes and 64-bit words
\* ------------------------------------------------------------------------

\* lexicographic order on same-length byte sequences: Go's < on uint64
RECURSIVE ULessFrom(_, _, _)
ULessFrom(x, y, j) ==
    IF j > Len(x) THEN FALSE
    ELSE IF x[j] # y[j] THEN x[j] < y[j]
    ELSE ULessFrom(x, y, j + 1)

ULess(x, y) == ULessFrom(x, y, 1)

Zero64 == [j \in 1..8 |-> 0]

One64 == [j \in 1..8 |-> IF j = 8 THEN 1 ELSE 0]

\* carry out of byte j+1 into byte j when x and y are added
RECURSIVE Carry(_, _, _)
Carry(x, y, j) ==
    IF j = 8 THEN 0
    ELSE (x[j + 1] + y[j + 1] + Carry(x, y, j + 1)) \div 256

\* x + y on 64-bit words, wrapping
Add64(x, y) == [j \in 1..8 |-> (x[j] + y[j] + Carry(x, y, j)) % 256]

Not64(x) == [j \in 1..8 |-> 255 - x[j]]

\* -x on int64, wrapping (-(-2^63) = -2^63)
Neg64(x) == Add64(Not64(x), One64)

\* x - y on 64-bit words, wrapping
Sub64(x, y) == Add64(x, Neg64(y))

\* the sign of an int64
IsNeg(x) == x[1] >= 128

\* ------------------------------------------------------------------------
\* package tuple: encoding
\* ------------------------------------------------------------------------

\* sizeLimits[n] = 1<<(n*8) - 1 as a uint64: n low bytes of 0xFF
sizeLimits(n) == [j \in 1..8 |-> IF j > 8 - n THEN 255 ELSE 0]

\* bytes.Replace(b, {0x00}, {0x00, 0xFF}, -1)
RECURSIVE Escape(_)
Escape(s) ==
    IF s = <<>> THEN <<>>
    ELSE IF Head(s) = 0 THEN <<0, 255>> \o Escape(Tail(s))
    ELSE <<Head(s)>> \o Escape(Tail(s))

NoEscapeEncodeBytes(code, s) == <<code>> \o s \o <<0>>

encodeBytes(code, s) == <<code>> \o Escape(s) \o <<0>>

RECURSIVE bisectFrom(_, _)
bisectFrom(u, n) ==
    IF ULess(sizeLimits(n), u) THEN bisectFrom(u, n + 1) ELSE n

RECURSIVE bisectLeqFrom(_, _)
bisectLeqFrom(u, n) ==
    IF n < 8 /\ ~ULess(u, sizeLimits(n)) THEN bisectLeqFrom(u, n + 1) ELSE n

BisectLeftLeq(u) == bisectLeqFrom(u, 0)

bisectLeft(u) == bisectFrom(u, 0)

\* the negative branch writes the tag 0x14 + n, as the positive one does
EncodeIntSameTag(i) ==
    IF i = Zero64 THEN <<20>>
    ELSE IF ~IsNeg(i)
         THEN LET n == bisectLeft(i)
              IN  <<(20 + n) % 256>> \o SubSeq(i, 9 - n, 8)
         ELSE LET n == bisectLeft(Neg64(i))
              IN  <<(20 + n) % 256>> \o SubSeq(Add64(sizeLimits(n), i), 9 - n, 8)

encodeInt(i) ==
    IF i = Zero64 THEN <<20>>
    ELSE IF ~IsNeg(i)
         THEN LET n == bisectLeft(i)
              IN  <<(20 + n) % 256>> \o SubSeq(i, 9 - n, 8)
         ELSE LET n == bisectLeft(Neg64(i))
              IN  <<(256 + 20 - n) % 256>> \o SubSeq(Add64(sizeLimits(n), i), 9 - n, 8)

\* An Element is [kind, val]: val is empty for nil, the content of a []byte,
\* lex.KeyConvertible or string, and the value's bytes, most significant
\* first, for the integer types (8 for int64, int and uint64, 4 for uint32,
\* 1 for byte).
SupportedKinds ==
    {"nil", "int64", "uint32", "uint64", "int", "byte", "bytes", "key", "string"}

\* int64(e) for the unsigned types narrower than 64 bits: zero extension
ZeroExtend(v) == [j \in 1..8 |-> IF j > 8 - Len(v) THEN v[j - (8 - Len(v))] ELSE 0]

\* one case of Pack's type switch
encodeElement(e) ==
    CASE e.kind = "nil"    -> <<0>>
      [] e.kind = "int64"  -> encodeInt(e.val)
      [] e.kind = "uint32" -> encodeInt(ZeroExtend(e.val))
      [] e.kind = "uint64" -> encodeInt(e.val)
      [] e.kind = "int"    -> encodeInt(e.val)
      [] e.kind = "byte"   -> encodeInt(ZeroExtend(e.val))
      [] e.kind = "bytes"  -> encodeBytes(1, e.val)
      [] e.kind = "key"    -> encodeBytes(1, e.val)
      [] e.kind = "string" -> encodeBytes(2, e.val)

\* the default case of the type switch
PackPanics(tp) == \E j \in 1..Len(tp) : tp[j].kind \notin SupportedKinds

RECURSIVE Pack(_)
Pack(tp) ==
    IF tp = <<>> THEN <<>>
    ELSE encodeElement(Head(tp)) \o Pack(Tail(tp))

\* ------------------------------------------------------------------------
\* package tuple: decoding
\* ------------------------------------------------------------------------

\* A Go slice is [arr, len]: arr holds the bytes of the backing array from
\* the slice's first byte up to its capacity, len is len(): arr's first len
\* bytes are the slice's content and the rest is whatever the backing array
\* holds there.  An index expression b[j] needs j < len(b); a slice
\* expression b[lo:hi] needs lo <= hi <= cap(b).
Slice(content, tail) == [arr |-> content \o tail, len |-> Len(content)]

Visible(s) == SubSeq(s.arr, 1, s.len)

\* b[j:] for j <= len(b)
SliceFrom(s, j) == [arr |-> SubSeq(s.arr, j + 1, Len(s.arr)), len |-> s.len - j]

\* bytes.IndexByte: the 0-based index of the first c in s, or -1
RECURSIVE IndexFrom(_, _, _)
IndexFrom(s, c, j) ==
    IF j > Len(s) THEN -1
    ELSE IF s[j] = c THEN j - 1
    ELSE IndexFrom(s, c, j + 1)

IndexByte(s, c) == IndexFrom(s, c, 1)

\* the loop of findTerminator, with bp and length as they stand at its top
RECURSIVE findTerminatorLoop(_, _)
findTerminatorLoop(bp, length) ==
    LET idx  == IndexByte(bp, 0)
        len2 == length + idx
    IN  IF idx + 1 = Len(bp) \/ bp[idx + 2] # 255
        THEN len2
        ELSE findTerminatorLoop(SubSeq(bp, idx + 3, Len(bp)), len2 + 2)

findTerminator(bp) == findTerminatorLoop(bp, 0)

\* bytes.Replace(s, {0x00, 0xFF}, {0x00}, -1)
RECURSIVE Unescape(_)
Unescape(s) ==
    IF s = <<>> THEN <<>>
    ELSE IF Len(s) >= 2 /\ s[1] = 0 /\ s[2] = 255
         THEN <<0>> \o Unescape(SubSeq(s, 3, Len(s)))
         ELSE <<Head(s)>> \o Unescape(Tail(s))

\* What decoding one element gives: the element and the bytes consumed, or
\* a run-time panic (a slice expression out of range).
Decoded(e, off) == [panic |-> FALSE, el |-> e, off |-> off]

DecodePanic == [panic |-> TRUE, el |-> [kind |-> "nil", val |-> <<>>], off |-> 0]

\* the terminator is left for the next element
DecodeBytesKeepTerminator(s, kind) ==
    LET idx == findTerminator(SubSeq(s.arr, 2, s.len))
    IN  IF idx + 1 < 1 \/ idx + 1 > Len(s.arr)
        THEN DecodePanic
        ELSE Decoded([kind |-> kind, val |-> Unescape(SubSeq(s.arr, 2, idx + 1))],
                     idx + 1)

\* decodeBytes (kind "bytes") and decodeString (kind "string")
decodeBytes(s, kind) ==
    LET idx == findTerminator(SubSeq(s.arr, 2, s.len))
    IN  IF idx + 1 < 1 \/ idx + 1 > Len(s.arr)
        THEN DecodePanic
        ELSE Decoded([kind |-> kind, val |-> Unescape(SubSeq(s.arr, 2, idx + 1))],
                     idx + 2)

decodeInt(s) ==
    IF s.arr[1] = 20 THEN Decoded([kind |-> "int64", val |-> Zero64], 1)
    ELSE LET d   == s.arr[1] - 20
             neg == d < 0
             n   == IF neg THEN -d ELSE d
         IN  IF n > 8 \/ n + 1 > Len(s.arr)
             THEN DecodePanic
             ELSE LET bp  == [j \in 1..8 |-> IF j > 8 - n
                                             THEN s.arr[1 + j - (8 - n)] ELSE 0]
                      ret == IF neg THEN Sub64(bp, sizeLimits(n)) ELSE bp
                  IN  Decoded([kind |-> "int64", val |-> ret], n + 1)

\* What Unpack gives: a tuple and a nil error, a nil tuple and an error, or
\* a panic.
UnpackOk(tp) == [status |-> "ok", t |-> tp]

UnpackError == [status |-> "error", t |-> <<>>]

UnpackPanic == [status |-> "panic", t |-> <<>>]

\* the loop of Unpack, with i and t as they stand at its top
RECURSIVE UnpackLoop(_, _, _)
UnpackLoop(s, i, tp) ==
    IF ~(i < s.len) THEN UnpackOk(tp)
    ELSE LET c == s.arr[i + 1]
             d == CASE c = 0 -> Decoded([kind |-> "nil", val |-> <<>>], 1)
                    [] c = 1 -> decodeBytes(SliceFrom(s, i), "bytes")
                    [] c = 2 -> decodeBytes(SliceFrom(s, i), "string")
                    [] 12 <= c /\ c <= 28 -> decodeInt(SliceFrom(s, i))
                    [] OTHER -> DecodePanic
         IN  IF ~(c \in {0, 1, 2} \/ (12 <= c /\ c <= 28)) THEN UnpackError
             ELSE IF d.panic THEN UnpackPanic
             ELSE UnpackLoop(s, i + d.off, Append(tp, d.el))

Unpack(s) == UnpackLoop(s, 0, <<>>)

\* ------------------------------------------------------------------------
\* package tuple: ranges
\* ------------------------------------------------------------------------

concat(x, y) == x \o y

LexKey(tp) == Pack(tp)

\* the range starts after the Null extension
LexRangeKeysAfterNull(tp) ==
    LET p == Pack(tp) IN [begin |-> concat(p, <<1>>), end |-> concat(p, <<255>>)]

LexRangeKeys(tp) ==
    LET p == Pack(tp) IN [begin |-> concat(p, <<0>>), end |-> concat(p, <<255>>)]

\* ------------------------------------------------------------------------
\* Inputs
\* ------------------------------------------------------------------------

Nil == [kind |-> "nil", val |-> <<>>]

BytesEl(s) == [kind |-> "bytes", val |-> s]

StringEl(s) == [kind |-> "string", val |-> s]

Int64El(w) == [kind |-> "int64", val |-> w]

\* the byte values strings are built from: the escaped byte, the escape
\* marker, and an ordinary byte
StrBytes == {0, 1, 255}

SeqsUpTo(S, n) == UNION {[1..m -> S] : m \in 0..n}

\* an int64 written as f bytes of sign fill, one leading byte, a run of one
\* body byte and a last byte
Word(fill, f, lead, body, lastb) ==
    [j \in 1..8 |-> IF j <= f THEN fill
                    ELSE IF j = f + 1 THEN lead
                    ELSE IF j = 8 THEN lastb
                    ELSE body]

Words(fs, leads, bodies, lasts) ==
    {Word(fill, f, lead, body, lastb) :
        fill \in {0, 255}, f \in fs, lead \in leads, body \in bodies, lastb \in lasts}

MinInt64 == Word(0, 0, 128, 0, 0)

MinusOne64 == Word(255, 7, 255, 0, 0)

\* the integers of the tuple model: every encoded width 0, 1, 2 and 8, both
\* signs, and the values at the ends of each width
PairInts == Words({0, 6, 7}, {0, 1, 127, 128, 255}, {0, 255}, {0, 1, 255})

\* the integers of the integer model: every width 0..8
AllInts == Words(0..7, {0, 1, 127, 128, 254, 255}, {0, 1, 255}, {0, 1, 255})

\* one-element tuples over a wide element set
WideElements ==
    {Nil} \cup {BytesEl(s) : s \in SeqsUpTo(StrBytes, MaxStrLen)}
          \cup {StringEl(s) : s \in SeqsUpTo(StrBytes, MaxStrLen)}
          \cup {Int64El(w) : w \in PairInts}

WideTuples == SeqsUpTo(WideElements, 1)

\* longer tuples over a narrow element set
NarrowElements ==
    {Nil, BytesEl(<<>>), BytesEl(<<0>>), StringEl(<<255>>), Int64El(MinusOne64)}

NarrowTuples == SeqsUpTo(NarrowElements, MaxTupleLen)

\* the unused capacity of the buffer Pack returns: none, or zeroed bytes
PackSpares == {<<>>, <<0>>}

\* ------------------------------------------------------------------------
\* The tuple model: pack two tuples, derive the range of the first, unpack
\* ------------------------------------------------------------------------

codecVars == <<a, b, pa, pb, rng, spare, ua, uab>>

intVars == <<elem, enc, dec, uenc>>

decodeVars == <<key, res, repacked>>

subVars == <<s1, s2, t, k1, k2, sres>>

heapVars == <<heap, subs, held, last>>

NoRange == [begin |-> <<>>, end |-> <<>>]

IdleCodec ==
    /\ a = <<>> /\ b = <<>> /\ pa = <<>> /\ pb = <<>> /\ rng = NoRange
    /\ spare = <<>> /\ ua = UnpackError /\ uab = UnpackError

IdleInt == elem = Nil /\ enc = <<>> /\ dec = DecodePanic /\ uenc = UnpackError

IdleDecode == key = <<>> /\ res = UnpackError /\ repacked = <<>>

IdleSub ==
    /\ s1 = [b |-> <<>>] /\ s2 = [b |-> <<>>] /\ t = <<>>
    /\ k1 = <<>> /\ k2 = <<>>
    /\ sres = [c11 |-> FALSE, c12 |-> FALSE, u11 |-> UnpackError, u12 |-> UnpackError]

IdleHeap == heap = <<>> /\ subs = <<>> /\ held = {} /\ last = "none"

Init ==
    /\ pc = "start"
    /\ \/ a \in WideTuples /\ b \in WideTuples
       \/ a \in NarrowTuples /\ b \in NarrowTuples
    /\ pa = <<>> /\ pb = <<>> /\ rng = NoRange
    /\ spare = <<>> /\ ua = UnpackError /\ uab = UnpackError
    /\ IdleInt /\ IdleDecode /\ IdleSub /\ IdleHeap

\* a.Pack() and b.Pack()
DoPack ==
    /\ pc = "start"
    /\ pa' = Pack(a)
    /\ pb' = Pack(b)
    /\ pc' = "packed"
    /\ UNCHANGED <<a, b, rng, spare, ua, uab, intVars, decodeVars, subVars, heapVars>>

\* a.LexRangeKeys()
DoLexRangeKeys ==
    /\ pc = "packed"
    /\ rng' = LexRangeKeys(a)
    /\ pc' = "ranged"
    /\ UNCHANGED <<a, b, pa, pb, spare, ua, uab, intVars, decodeVars, subVars, heapVars>>

\* Unpack(a.Pack())
DoUnpack ==
    /\ pc = "ranged"
    /\ \E sp \in PackSpares :
          /\ spare' = sp
          /\ ua' = Unpack(Slice(pa, sp))
    /\ pc' = "unpacked"
    /\ UNCHANGED <<a, b, pa, pb, rng, uab, intVars, decodeVars, subVars, heapVars>>

\* Unpack(a.Pack() ++ b.Pack())
DoUnpackConcat ==
    /\ pc = "unpacked"
    /\ uab' = Unpack(Slice(concat(pa, pb), spare))
    /\ pc' = "done"
    /\ UNCHANGED <<a, b, pa, pb, rng, spare, ua, intVars, decodeVars, subVars, heapVars>>

Next == DoPack \/ DoLexRangeKeys \/ DoUnpack \/ DoUnpackConcat

Spec == Init /\ [][Next]_vars

\* ------------------------------------------------------------------------
\* The orders the claims speak of
\* ------------------------------------------------------------------------

\* byte-lexicographic order: a proper prefix sorts first
RECURSIVE BytesLess(_, _)
BytesLess(x, y) ==
    IF y = <<>> THEN FALSE
    ELSE IF x = <<>> THEN TRUE
    ELSE IF Head(x) # Head(y) THEN Head(x) < Head(y)
    ELSE BytesLess(Tail(x), Tail(y))

BytesLeq(x, y) == x = y \/ BytesLess(x, y)

\* numeric order on int64: the sign bit inverted, then unsigned order
FlipSign(w) == [j \in 1..8 |-> IF j = 1 THEN (w[j] + 128) % 256 ELSE w[j]]

SLess(x, y) == ULess(FlipSign(x), FlipSign(y))

Rank(e) ==
    CASE e.kind = "nil" -> 0
      [] e.kind = "bytes" -> 1
      [] e.kind = "string" -> 2
      [] e.kind = "int64" -> 3

ElemLess(x, y) ==
    \/ Rank(x) < Rank(y)
    \/ /\ Rank(x) = Rank(y)
       /\ IF x.kind = "int64" THEN SLess(x.val, y.val) ELSE BytesLess(x.val, y.val)

\* tuple order: element by element, a proper prefix sorts first
RECURSIVE TupleLess(_, _)
TupleLess(x, y) ==
    IF y = <<>> THEN FALSE
    ELSE IF x = <<>> THEN TRUE
    ELSE IF Head(x) # Head(y) THEN ElemLess(Head(x), Head(y))
    ELSE TupleLess(Tail(x), Tail(y))

\* y is strictly longer than x and starts with x's elements
IsStrictExtension(y, x) == Len(y) > Len(x) /\ SubSeq(y, 1, Len(x)) = x

InRange(k, r) == BytesLeq(r.begin, k) /\ BytesLess(k, r.end)

\* ------------------------------------------------------------------------
\* Claims on the tuple model
\* ------------------------------------------------------------------------

\* C1: unpacking the packing of a tuple of nil, []byte, string and int64
\* elements returns no error and the same elements, position by position,
\* with the same variant.
RoundTrip == pc \in {"unpacked", "done"} => ua = UnpackOk(a)

RoundTripWitness ==
    /\ pc = "unpacked"
    /\ a = <<BytesEl(<<0, 255>>)>>
    /\ ua = UnpackOk(a)

\* C2: a sorts before b in tuple order exactly when a.Pack() sorts before
\* b.Pack() in byte order.
OrderPreserved == pc # "start" => (TupleLess(a, b) <=> BytesLess(pa, pb))

OrderPreservedWitness ==
    /\ pc = "packed"
    /\ a = <<Int64El(MinInt64)>>
    /\ b = <<Int64El(MinusOne64)>>
    /\ BytesLess(pa, pb)

\* C4: b.Pack() lies in [a.Pack()++0x00, a.Pack()++0xFF) exactly when b is
\* strictly longer than a and starts with a's elements.
PrefixRange ==
    pc \in {"ranged", "unpacked", "done"} =>
        (InRange(pb, rng) <=> IsStrictExtension(b, a))

PrefixRangeWitness ==
    /\ pc = "ranged"
    /\ a = <<BytesEl(<<>>)>>
    /\ b = <<BytesEl(<<>>), Nil>>
    /\ InRange(pb, rng)

\* C7: a.Pack()++b.Pack() is the packing of a++b, and unpacks without error
\* to a's elements followed by b's.
ConcatSelfDelimiting ==
    pc = "done" => (concat(pa, pb) = Pack(a \o b) /\ uab = UnpackOk(a \o b))

ConcatSelfDelimitingWitness ==
    /\ pc = "done"
    /\ a = <<BytesEl(<<0>>)>>
    /\ b = <<Nil>>
    /\ uab = UnpackOk(<<BytesEl(<<0>>), Nil>>)

\* ------------------------------------------------------------------------
\* The integer model: pack one integer element of any accepted Go type,
\* decode it
\* ------------------------------------------------------------------------

IntElements ==
    {[kind |-> kd, val |-> w] : kd \in {"int64", "int", "uint64"}, w \in AllInts}
        \cup {[kind |-> "uint32", val |-> SubSeq(w, 5, 8)] : w \in AllInts}
        \cup {[kind |-> "byte", val |-> <<x>>] : x \in {0, 1, 127, 128, 255}}

InitInt ==
    /\ pc = "start"
    /\ elem \in IntElements
    /\ enc = <<>> /\ dec = DecodePanic /\ uenc = UnpackError
    /\ IdleCodec /\ IdleDecode /\ IdleSub /\ IdleHeap

\* Tuple{elem}.Pack()
DoEncodeInt ==
    /\ pc = "start"
    /\ enc' = Pack(<<elem>>)
    /\ pc' = "encoded"
    /\ UNCHANGED <<elem, dec, uenc, codecVars, decodeVars, subVars, heapVars>>

\* decodeInt on the packed bytes
DoDecodeInt ==
    /\ pc = "encoded"
    /\ \E sp \in PackSpares : dec' = decodeInt(Slice(enc, sp))
    /\ pc' = "decoded"
    /\ UNCHANGED <<elem, enc, uenc, codecVars, decodeVars, subVars, heapVars>>

\* Unpack on the packed bytes
DoUnpackInt ==
    /\ pc = "decoded"
    /\ \E sp \in PackSpares : uenc' = Unpack(Slice(enc, sp))
    /\ pc' = "unpacked"
    /\ UNCHANGED <<elem, enc, dec, codecVars, decodeVars, subVars, heapVars>>

NextInt == DoEncodeInt \/ DoDecodeInt \/ DoUnpackInt

SpecInt == InitInt /\ [][NextInt]_vars

\* |i| as an unsigned 64-bit number (2^63 for the least int64)
Magnitude(i) == IF IsNeg(i) THEN Neg64(i) ELSE i

\* the least n in 0..8 with m <= 2^(8n) - 1: all but m's low n bytes are zero
MinimalBytes(m) ==
    CHOOSE n \in 0..8 :
        /\ \A j \in 1..(8 - n) : m[j] = 0
        /\ n = 0 \/ m[8 - n + 1] # 0

\* C5: an int64 i packs to 1+n bytes, n minimal for |i|; the tag is 0x14,
\* 0x14+n or 0x14-n by the sign; the payload is the n-byte big-endian form
\* of i, or of (2^(8n)-1)+i = (2^(8n)-1)-|i| (each byte of |i| complemented)
\* for a negative i; decoding gives i back and consumes 1+n bytes.
IntEncoding ==
    (pc # "start" /\ elem.kind = "int64") =>
        LET i == elem.val
            m == Magnitude(i)
            n == MinimalBytes(m)
        IN  /\ Len(enc) = 1 + n
            /\ enc[1] = (IF i = Zero64 THEN 20 ELSE IF IsNeg(i) THEN 20 - n ELSE 20 + n)
            /\ \A j \in 1..n :
                  enc[1 + j] = (IF IsNeg(i) THEN 255 - m[8 - n + j] ELSE i[8 - n + j])
            /\ pc \in {"decoded", "unpacked"} => dec = Decoded(Int64El(i), 1 + n)

IntEncodingWitness ==
    /\ pc = "decoded"
    /\ elem = Int64El(MinInt64)
    /\ enc = <<12, 127, 255, 255, 255, 255, 255, 255, 255>>
    /\ dec = Decoded(Int64El(MinInt64), 9)

\* the numeric value of an integer element: sign and magnitude
NumValue(e) ==
    IF e.kind \in {"int64", "int"}
    THEN [neg |-> IsNeg(e.val), mag |-> Magnitude(e.val)]
    ELSE [neg |-> FALSE, mag |-> ZeroExtend(e.val)]

\* C6: an integer element of any accepted Go type unpacks to an int64 of the
\* same numeric value.
IntNormalized ==
    pc = "unpacked" =>
        /\ uenc.status = "ok"
        /\ Len(uenc.t) = 1
        /\ uenc.t[1].kind = "int64"
        /\ NumValue(uenc.t[1]) = NumValue(elem)

\* ------------------------------------------------------------------------
\* The decoding model: unpack any byte sequence, pack what it gave
\* ------------------------------------------------------------------------

\* Null, the string tags, integer tags of widths 0, 1 and 2 of both signs,
\* and 0xFF (the escape marker, and no tag)
KeyBytes == {0, 1, 2, 19, 20, 21, 22, 255}

SpareBytes == {0, 255}

InitDecode ==
    /\ pc = "start"
    /\ key \in SeqsUpTo(KeyBytes, MaxKeyLen)
    /\ spare \in SeqsUpTo(SpareBytes, MaxSpare)
    /\ res = UnpackError /\ repacked = <<>>
    /\ a = <<>> /\ b = <<>> /\ pa = <<>> /\ pb = <<>> /\ rng = NoRange
    /\ ua = UnpackError /\ uab = UnpackError
    /\ IdleInt /\ IdleSub /\ IdleHeap

\* Unpack(key), key a slice whose backing array holds spare beyond len(key)
DoUnpackKey ==
    /\ pc = "start"
    /\ res' = Unpack(Slice(key, spare))
    /\ pc' = "unpacked"
    /\ UNCHANGED <<key, repacked, codecVars, intVars, subVars, heapVars>>

\* the tuple Unpack returned, packed
DoRepack ==
    /\ pc = "unpacked"
    /\ res.status = "ok"
    /\ repacked' = Pack(res.t)
    /\ pc' = "repacked"
    /\ UNCHANGED <<key, res, codecVars, intVars, subVars, heapVars>>

NextDecode == DoUnpackKey \/ DoRepack

SpecDecode == InitDecode /\ [][NextDecode]_vars

\* the 1-based place of the payload's terminator in s (a 0x00 that 0xFF does
\* not follow, escapes skipped), scanning from j; 0 when there is none
RECURSIVE TerminatorAt(_, _)
TerminatorAt(s, j) ==
    IF j > Len(s) THEN 0
    ELSE IF s[j] # 0 THEN TerminatorAt(s, j + 1)
    ELSE IF j < Len(s) /\ s[j + 1] = 255 THEN TerminatorAt(s, j + 2)
    ELSE j

\* k is a sequence of whole elements: known tags, terminated payloads,
\* integers with all their payload bytes
RECURSIVE WellFormed(_)
WellFormed(k) ==
    IF k = <<>> THEN TRUE
    ELSE LET c == Head(k)
         IN  CASE c = 0 -> WellFormed(Tail(k))
               [] c \in {1, 2} ->
                    LET e == TerminatorAt(Tail(k), 1)
                    IN  e # 0 /\ WellFormed(SubSeq(k, e + 2, Len(k)))
               [] c \in 12..28 ->
                    LET n == IF c < 20 THEN 20 - c ELSE c - 20
                    IN  Len(k) >= 1 + n /\ WellFormed(SubSeq(k, n + 2, Len(k)))
               [] OTHER -> FALSE

\* C3: Unpack never panics, and returns an error and no tuple for every byte
\* sequence that is not a sequence of whole elements.
DecodeFailure ==
    pc \in {"unpacked", "repacked"} =>
        /\ res.status # "panic"
        /\ ~WellFormed(key) => res = UnpackError

\* C10: packing the tuple Unpack returned for a byte sequence gives that
\* byte sequence back.
CanonicalEncoding == pc = "repacked" => repacked = key

\* ------------------------------------------------------------------------
\* package subspace
\* ------------------------------------------------------------------------

\* A subspace value is [b]: the bytes of its prefix.
AllKeys == [b |-> <<>>]

Sub(el) == [b |-> Pack(el)]

FromBytes(bs) == [b |-> bs]

Bytes(s) == s.b

SubspaceSub(s, el) == [b |-> concat(Bytes(s), Pack(el))]

SubspacePack(s, tp) == concat(s.b, Pack(tp))

\* bytes.HasPrefix
HasPrefix(k, p) == Len(k) >= Len(p) /\ SubSeq(k, 1, Len(p)) = p

NotInSubspace == [status |-> "key is not in subspace", t |-> <<>>]

SubspaceUnpack(s, ks) ==
    IF ~HasPrefix(Visible(ks), s.b) THEN NotInSubspace
    ELSE Unpack(SliceFrom(ks, Len(s.b)))

\* bytes.HasPrefix with its arguments exchanged
ContainsSwapped(s, ks) == HasPrefix(s.b, Visible(ks))

Contains(s, ks) == HasPrefix(Visible(ks), s.b)

SubspaceLexKey(s) == s.b

SubspaceLexRangeKeys(s) ==
    [begin |-> concat(s.b, <<0>>), end |-> concat(s.b, <<255>>)]

\* ------------------------------------------------------------------------
\* The subspace model: two subspaces, each packs a tuple, the first is
\* asked about both keys
\* ------------------------------------------------------------------------

SubElements == {Nil, BytesEl(<<0>>), Int64El(One64)}

SubTuples == SeqsUpTo(SubElements, MaxSubTupleLen)

RawPrefixes == SeqsUpTo({0, 255}, MaxPrefixLen)

InitSub ==
    /\ pc = "start"
    /\ t \in SubTuples
    /\ s1 = [b |-> <<>>] /\ s2 = [b |-> <<>>]
    /\ k1 = <<>> /\ k2 = <<>>
    /\ sres = [c11 |-> FALSE, c12 |-> FALSE, u11 |-> UnpackError, u12 |-> UnpackError]
    /\ IdleCodec /\ IdleInt /\ IdleDecode /\ IdleHeap

\* s1 and s2, each by one of the constructors: AllKeys(), Sub(el...),
\* FromBytes(raw), or FromBytes(raw).Sub(el...)
DoConstruct ==
    /\ pc = "start"
    /\ \/ s1' = AllKeys
       \/ \E el \in SubTuples : s1' = Sub(el)
       \/ \E raw \in RawPrefixes : s1' = FromBytes(raw)
       \/ \E raw \in RawPrefixes, el \in SubTuples : s1' = SubspaceSub(FromBytes(raw), el)
    /\ \/ s2' = AllKeys
       \/ \E el \in SubTuples : s2' = Sub(el)
       \/ \E raw \in RawPrefixes : s2' = FromBytes(raw)
       \/ \E raw \in RawPrefixes, el \in SubTuples : s2' = SubspaceSub(FromBytes(raw), el)
    /\ pc' = "built"
    /\ UNCHANGED <<t, k1, k2, sres, codecVars, intVars, decodeVars, heapVars>>

\* s1.Pack(t) and s2.Pack(t)
DoSubspacePack ==
    /\ pc = "built"
    /\ k1' = SubspacePack(s1, t)
    /\ k2' = SubspacePack(s2, t)
    /\ pc' = "packed"
    /\ UNCHANGED <<s1, s2, t, sres, codecVars, intVars, decodeVars, heapVars>>

\* s1.Contains of both keys (concat returns a slice with no spare capacity)
DoContains ==
    /\ pc = "packed"
    /\ sres' = [sres EXCEPT !.c11 = Contains(s1, Slice(k1, <<>>)),
                            !.c12 = Contains(s1, Slice(k2, <<>>))]
    /\ pc' = "contained"
    /\ UNCHANGED <<s1, s2, t, k1, k2, codecVars, intVars, decodeVars, heapVars>>

\* s1.Unpack of both keys
DoSubspaceUnpack ==
    /\ pc = "contained"
    /\ sres' = [sres EXCEPT !.u11 = SubspaceUnpack(s1, Slice(k1, <<>>)),
                            !.u12 = SubspaceUnpack(s1, Slice(k2, <<>>))]
    /\ pc' = "unpacked"
    /\ UNCHANGED <<s1, s2, t, k1, k2, codecVars, intVars, decodeVars, heapVars>>

NextSub == DoConstruct \/ DoSubspacePack \/ DoContains \/ DoSubspaceUnpack

SpecSub == InitSub /\ [][NextSub]_vars

\* k starts with the bytes of p
StartsWith(k, p) == Len(k) >= Len(p) /\ \A j \in 1..Len(p) : k[j] = p[j]

\* neither prefix starts with the other
Disjoint(p, q) == ~StartsWith(p, q) /\ ~StartsWith(q, p)

\* C8: a subspace contains and unpacks its own keys; it contains a key
\* exactly when the key starts with its prefix; it neither contains nor
\* unpacks a key packed by a subspace with a disjoint prefix.
SubspaceIsolation ==
    /\ pc \in {"contained", "unpacked"} =>
          /\ sres.c11
          /\ sres.c12 <=> StartsWith(k2, s1.b)
          /\ Disjoint(s1.b, s2.b) => ~sres.c12
    /\ pc = "unpacked" =>
          /\ sres.u11 = UnpackOk(t)
          /\ Disjoint(s1.b, s2.b) => sres.u12 = NotInSubspace

SubspaceIsolationWitness ==
    /\ pc = "unpacked"
    /\ s1.b # <<>>
    /\ t # <<>>
    /\ Disjoint(s1.b, s2.b)
    /\ sres.u11 = UnpackOk(t)
    /\ sres.u12 = NotInSubspace
    /\ ~sres.c12

\* ------------------------------------------------------------------------
\* The aliasing model: byte arrays live in a heap; a subspace holds a
\* reference to the array of its prefix; the caller holds references to the
\* slices it made or was handed, and may write to them
\* ------------------------------------------------------------------------

\* heap[id] is the content of array id; subs[i] is the array subspace i
\* refers to (0: the nil slice of AllKeys); held is the set of arrays the
\* caller has a slice of; last names the last call and its result.

HeapTuples == {<<>>, <<Nil>>}

CallerBytes == {<<1>>}

WriteBytes == {255}

ArrayOf(id) == IF id = 0 THEN <<>> ELSE heap[id]

\* subspace i as a value: the prefix it holds now
SubAt(i) == [b |-> ArrayOf(subs[i])]

InitHeap ==
    /\ pc = "run"
    /\ heap = <<>> /\ subs = <<>> /\ held = {} /\ last = "none"
    /\ IdleCodec /\ IdleInt /\ IdleDecode /\ IdleSub

otherVars == <<pc, codecVars, intVars, decodeVars, subVars>>

\* the caller makes a byte slice of its own
HCallerMake ==
    /\ Len(heap) < MaxArrays
    /\ \E raw \in CallerBytes : heap' = Append(heap, raw)
    /\ held' = held \cup {Len(heap) + 1}
    /\ last' = "make"
    /\ UNCHANGED <<subs, otherVars>>

\* AllKeys()
HAllKeys ==
    /\ Len(subs) < MaxSubs
    /\ subs' = Append(subs, 0)
    /\ last' = "AllKeys"
    /\ UNCHANGED <<heap, held, otherVars>>

\* Sub(el...)
HSub ==
    /\ Len(subs) < MaxSubs /\ Len(heap) < MaxArrays
    /\ \E el \in HeapTuples : heap' = Append(heap, Sub(el).b)
    /\ subs' = Append(subs, Len(heap) + 1)
    /\ last' = "Sub"
    /\ UNCHANGED <<held, otherVars>>

\* FromBytes(b), b a slice of the caller's: the prefix is a copy of b
HFromBytes ==
    /\ Len(subs) < MaxSubs /\ Len(heap) < MaxArrays
    /\ \E id \in held : heap' = Append(heap, FromBytes(heap[id]).b)
    /\ subs' = Append(subs, Len(heap) + 1)
    /\ last' = "FromBytes"
    /\ UNCHANGED <<held, otherVars>>

\* s.Sub(el...): a new subspace on a new array
HSubspaceSub ==
    /\ Len(subs) < MaxSubs /\ Len(heap) < MaxArrays
    /\ \E i \in 1..Len(subs), el \in HeapTuples :
          heap' = Append(heap, SubspaceSub(SubAt(i), el).b)
    /\ subs' = Append(subs, Len(heap) + 1)
    /\ last' = "s.Sub"
    /\ UNCHANGED <<held, otherVars>>

\* s.Bytes(): the slice returned is s.b itself
HBytes ==
    /\ \E i \in 1..Len(subs) : held' = held \cup ({subs[i]} \ {0})
    /\ last' = "s.Bytes"
    /\ UNCHANGED <<heap, subs, otherVars>>

\* s.LexKey(): lex.Key(s.b) is s.b itself
HLexKey ==
    /\ \E i \in 1..Len(subs) : held' = held \cup ({subs[i]} \ {0})
    /\ last' = "s.LexKey"
    /\ UNCHANGED <<heap, subs, otherVars>>

\* s.Pack(t): a new array
HPack ==
    /\ Len(heap) < MaxArrays
    /\ \E i \in 1..Len(subs), tp \in HeapTuples :
          heap' = Append(heap, SubspacePack(SubAt(i), tp))
    /\ held' = held \cup {Len(heap) + 1}
    /\ last' = "s.Pack"
    /\ UNCHANGED <<subs, otherVars>>

\* s.Unpack(k), k a slice of the caller's
HUnpack ==
    /\ \E i \in 1..Len(subs), id \in held :
          last' = SubspaceUnpack(SubAt(i), Slice(heap[id], <<>>)).status
    /\ UNCHANGED <<heap, subs, held, otherVars>>

\* s.Contains(k), k a slice of the caller's
HContains ==
    /\ \E i \in 1..Len(subs), id \in held :
          last' = IF Contains(SubAt(i), Slice(heap[id], <<>>))
                  THEN "s.Contains: true" ELSE "s.Contains: false"
    /\ UNCHANGED <<heap, subs, held, otherVars>>

\* s.LexRangeKeys(): two new arrays
HLexRangeKeys ==
    /\ Len(heap) + 2 <= MaxArrays
    /\ \E i \in 1..Len(subs) :
          LET r == SubspaceLexRangeKeys(SubAt(i))
          IN  heap' = heap \o <<r.begin, r.end>>
    /\ held' = held \cup {Len(heap) + 1, Len(heap) + 2}
    /\ last' = "s.LexRangeKeys"
    /\ UNCHANGED <<subs, otherVars>>

\* the caller writes one byte of a slice it holds
HCallerWrite ==
    /\ \E id \in held, v \in WriteBytes :
          \E j \in 1..Len(heap[id]) : heap' = [heap EXCEPT ![id][j] = v]
    /\ last' = "write"
    /\ UNCHANGED <<subs, held, otherVars>>

NextHeap ==
    \/ HCallerMake \/ HAllKeys \/ HSub \/ HFromBytes \/ HSubspaceSub
    \/ HBytes \/ HLexKey \/ HPack \/ HUnpack \/ HContains \/ HLexRangeKeys
    \/ HCallerWrite

SpecHeap == InitHeap /\ [][NextHeap]_vars

\* C9: the prefix of a constructed subspace never changes, whatever is
\* called on it and whatever the caller writes to the slices it holds.
PrefixImmutable ==
    [][\A i \in 1..Len(subs) : ArrayOf(subs[i])' = ArrayOf(subs[i])]_vars

====
